---------------------------- MODULE Spec2Model ----------------------------
(***************************************************************************)
(* bplot (src/src/bplot/bplot.py): decode a raw binary dump into a typed,  *)
(* shaped array and hand a user-selected sub-range to a terminal plotter.  *)
(*                                                                         *)
(* Texts (the --shape and --plot-range options) are sequences of           *)
(* one-character strings.  Bytes are small naturals.  A decoded scalar is  *)
(* the record of its dtype and the bytes struct.unpack consumed for it:    *)
(* no property below depends on the numeric value of a scalar, only on     *)
(* which bytes of the file it came from.                                   *)
(***************************************************************************)
EXTENDS Integers, Sequences, FiniteSets, TLC

(***************************************************************************)
(* Bounds of the model.                                                    *)
(***************************************************************************)
MaxRangeLen == 3
MaxShapeLen == 3
MaxFileLen == 17

(***************************************************************************)
(* Program constants.                                                      *)
(***************************************************************************)
DTYPE_SIZES == [i |-> 4, I |-> 4, q |-> 8, Q |-> 8, f |-> 4, d |-> 8]

MAX_RANGE_LEN == 15

Digits == {"0", "1", "2", "3", "4", "5", "6", "7", "8", "9"}

RANGE_CHARS == Digits \cup {"-", "[", "]", ",", ":", " "}

LAYOUTS == {"f", "c"}

(***************************************************************************)
(* Generic helpers on sequences.                                           *)
(***************************************************************************)
Reverse(s) == [i \in 1..Len(s) |-> s[Len(s) + 1 - i]]

RECURSIVE Prod(_)
Prod(s) == IF s = <<>> THEN 1 ELSE s[1] * Prod(Tail(s))

RECURSIVE Texts(_, _)
Texts(alphabet, n) ==
    IF n = 0 THEN {<<>>}
    ELSE LET shorter == Texts(alphabet, n - 1)
         IN shorter \cup {Append(t, c) : t \in {u \in shorter : Len(u) = n - 1}, c \in alphabet}

Repeat(c, n) == [i \in 1..n |-> c]

DigitVal(c) ==
    CASE c = "0" -> 0 [] c = "1" -> 1 [] c = "2" -> 2 [] c = "3" -> 3 [] c = "4" -> 4
      [] c = "5" -> 5 [] c = "6" -> 6 [] c = "7" -> 7 [] c = "8" -> 8 [] c = "9" -> 9

\* int(run) for a run of decimal digits
RECURSIVE IntOf(_)
IntOf(run) ==
    IF run = <<>> THEN 0
    ELSE 10 * IntOf(SubSeq(run, 1, Len(run) - 1)) + DigitVal(run[Len(run)])

(***************************************************************************)
(* Shape parsing: np.array(list(map(int, re.findall(r"(\d+)", shape))))    *)
(* re.findall scans left to right; at each position \d+ matches greedily   *)
(* and the scan resumes after the match.                                   *)
(***************************************************************************)
RECURSIVE DigitRunEnd(_, _)
DigitRunEnd(text, i) ==
    IF i + 1 <= Len(text) /\ text[i + 1] \in Digits THEN DigitRunEnd(text, i + 1) ELSE i

RECURSIVE FindAllDigitsFrom(_, _)
FindAllDigitsFrom(text, i) ==
    IF i > Len(text) THEN <<>>
    ELSE IF text[i] \in Digits
         THEN LET e == DigitRunEnd(text, i)
              IN <<SubSeq(text, i, e)>> \o FindAllDigitsFrom(text, e + 1)
         ELSE FindAllDigitsFrom(text, i + 1)

FindAllDigits(text) == FindAllDigitsFrom(text, 1)

ParseShape(text) ==
    LET runs == FindAllDigits(text) IN [k \in 1..Len(runs) |-> IntOf(runs[k])]

(***************************************************************************)
(* Range evaluation: eval(f"np.s_[{plot_range}]").  np.s_[x] returns x, so *)
(* the value is what Python's subscript grammar makes of the text:         *)
(*   slices: slice (',' slice)* [',']                                      *)
(*   slice:  [expr] ':' [expr] [':' [expr]]  |  expr                       *)
(* Over the characters modelled here (digits, '-', ':', ',', space) an     *)
(* expr is a sum of integer literals under unary and binary minus.  Texts  *)
(* holding '[' or ']' (list displays) pass the character check of the code *)
(* but are not among the inputs enumerated below.                          *)
(***************************************************************************)
Tok(t, v) == [t |-> t, v |-> v]

\* Python rejects a decimal literal with a leading zero unless it is all zeros.
NumTok(run) ==
    IF Len(run) > 1 /\ run[1] = "0" /\ \E k \in 1..Len(run) : run[k] # "0"
    THEN Tok("badnum", 0)
    ELSE Tok("num", IntOf(run))

RECURSIVE TokenizeFrom(_, _)
TokenizeFrom(text, i) ==
    IF i > Len(text) THEN <<>>
    ELSE IF text[i] = " " THEN TokenizeFrom(text, i + 1)
    ELSE IF text[i] \in Digits
         THEN LET e == DigitRunEnd(text, i)
              IN <<NumTok(SubSeq(text, i, e))>> \o TokenizeFrom(text, e + 1)
    ELSE <<Tok(text[i], 0)>> \o TokenizeFrom(text, i + 1)

Tokenize(text) == TokenizeFrom(text, 1)

\* the segments of toks between the separators sep (always at least one segment)
RECURSIVE SplitOn(_, _)
SplitOn(toks, sep) ==
    IF \A k \in 1..Len(toks) : toks[k].t # sep THEN <<toks>>
    ELSE LET p == CHOOSE k \in 1..Len(toks) :
                      toks[k].t = sep /\ \A j \in 1..(k - 1) : toks[j].t # sep
         IN <<SubSeq(toks, 1, p - 1)>> \o SplitOn(SubSeq(toks, p + 1, Len(toks)), sep)

\* an expression: literals separated by at least one '-', optional leading '-'s
ExprOk(toks) ==
    /\ toks # <<>>
    /\ toks[Len(toks)].t = "num"
    /\ \A k \in 1..Len(toks) : toks[k].t \in {"num", "-"}
    /\ \A k \in 1..(Len(toks) - 1) : ~(toks[k].t = "num" /\ toks[k + 1].t = "num")

RECURSIVE ExprValFrom(_, _, _)
ExprValFrom(toks, i, sign) ==
    IF i > Len(toks) THEN 0
    ELSE IF toks[i].t = "-" THEN ExprValFrom(toks, i + 1, -sign)
    ELSE sign * toks[i].v + ExprValFrom(toks, i + 1, 1)

ExprVal(toks) == ExprValFrom(toks, 1, 1)

None == <<>>
Some(v) == <<v>>

IntSel(v) == [t |-> "int", v |-> v, start |-> None, stop |-> None, step |-> None]
SliceSel(a, b, c) == [t |-> "slice", v |-> 0, start |-> a, stop |-> b, step |-> c]

OptExprOk(toks) == toks = <<>> \/ ExprOk(toks)
OptExpr(toks) == IF toks = <<>> THEN None ELSE Some(ExprVal(toks))

SelectorOk(seg) ==
    LET parts == SplitOn(seg, ":")
    IN IF Len(parts) = 1 THEN ExprOk(seg)
       ELSE Len(parts) <= 3 /\ \A k \in 1..Len(parts) : OptExprOk(parts[k])

Selector(seg) ==
    LET parts == SplitOn(seg, ":")
    IN IF Len(parts) = 1 THEN IntSel(ExprVal(seg))
       ELSE SliceSel(OptExpr(parts[1]), OptExpr(parts[2]),
                     IF Len(parts) = 3 THEN OptExpr(parts[3]) ELSE None)

\* the comma-separated segments, a single trailing comma dropped
Segments(text) ==
    LET segs == SplitOn(Tokenize(text), ",")
    IN IF Len(segs) > 1 /\ segs[Len(segs)] = <<>>
       THEN SubSeq(segs, 1, Len(segs) - 1) ELSE segs

\* TRUE iff eval raises (the bare except of main catches it)
EvalRaises(text) ==
    \E k \in 1..Len(Segments(text)) : ~SelectorOk(Segments(text)[k])

\* the value of np.s_[text]: the selectors, one per axis
EvalRange(text) ==
    LET segs == Segments(text) IN [k \in 1..Len(segs) |-> Selector(segs[k])]

(***************************************************************************)
(* Decoding: struct.unpack(f"{num_values}{dtype}", bin_data) reads the     *)
(* scalars in order, DTYPE_SIZES[dtype] bytes each.                        *)
(***************************************************************************)
\* mutant: the extra bytes are kept
Truncated_KeepsAll(bytes, dtype_size) == bytes

Truncated(bytes, dtype_size) ==
    SubSeq(bytes, 1, Len(bytes) - (Len(bytes) % dtype_size))

Scalar(dtype, chunk) == [dtype |-> dtype, bytes |-> chunk]

Unpack(dtype, bytes) ==
    LET w == DTYPE_SIZES[dtype]
        num_values == Len(bytes) \div w
    IN [k \in 1..num_values |-> Scalar(dtype, SubSeq(bytes, (k - 1) * w + 1, k * w))]

(***************************************************************************)
(* Arrays: a shape and the elements by index tuple (indices from 0).       *)
(***************************************************************************)
RECURSIVE IndexTuples(_)
IndexTuples(shape) ==
    IF shape = <<>> THEN {<<>>}
    ELSE {<<i>> \o t : i \in 0..(shape[1] - 1), t \in IndexTuples(Tail(shape))}

NDArray(shape, elems) == [shape |-> shape, elems |-> elems]

\* numpy's C-contiguous strides, in elements: stride[j] = shape[j+1] * ... * shape[k]
Strides(shape) ==
    [j \in 1..Len(shape) |-> Prod(SubSeq(shape, j + 1, Len(shape)))]

RECURSIVE Dot(_, _)
Dot(a, b) == IF a = <<>> THEN 0 ELSE a[1] * b[1] + Dot(Tail(a), Tail(b))

\* np.array(flat).reshape(shape) raises ValueError unless the sizes agree
ReshapeRaises(flat, shape) == Prod(shape) # Len(flat)

Reshape(flat, shape) ==
    NDArray(shape, [idx \in IndexTuples(shape) |-> flat[Dot(idx, Strides(shape)) + 1]])

\* mutant: the transpose is forgotten
Transpose_Missing(a) == a

\* ndarray.transpose() with no argument reverses the axes
Transpose(a) ==
    NDArray(Reverse(a.shape),
            [idx \in IndexTuples(Reverse(a.shape)) |-> a.elems[Reverse(idx)]])

\* lines 147-150 of read_binary_data
Shaped(flat, shape, layout) ==
    IF layout = "f" THEN Transpose(Reshape(flat, Reverse(shape)))
    ELSE Reshape(flat, shape)

(***************************************************************************)
(* Basic indexing bin_data[slice_]: an integer selects one position of its *)
(* axis and removes the axis (negative values count from the end), a slice *)
(* selects the positions slice.indices(n) gives and keeps the axis, axes   *)
(* without a selector are kept whole.                                      *)
(***************************************************************************)
Clamp(x, lo, hi) == IF x < lo THEN lo ELSE IF x > hi THEN hi ELSE x

SliceStep(sel) == IF sel.step = None THEN 1 ELSE sel.step[1]

\* slice.indices(n): start and stop after defaults, wrap-around and clamping
SliceStart(sel, n) ==
    LET step == SliceStep(sel)
    IN IF sel.start = None THEN (IF step > 0 THEN 0 ELSE n - 1)
       ELSE LET v == IF sel.start[1] < 0 THEN sel.start[1] + n ELSE sel.start[1]
            IN IF step > 0 THEN Clamp(v, 0, n) ELSE Clamp(v, -1, n - 1)

SliceStop(sel, n) ==
    LET step == SliceStep(sel)
    IN IF sel.stop = None THEN (IF step > 0 THEN n ELSE -1)
       ELSE LET v == IF sel.stop[1] < 0 THEN sel.stop[1] + n ELSE sel.stop[1]
            IN IF step > 0 THEN Clamp(v, 0, n) ELSE Clamp(v, -1, n - 1)

RECURSIVE RangeSeq(_, _, _)
RangeSeq(start, stop, step) ==
    IF (step > 0 /\ start >= stop) \/ (step < 0 /\ start <= stop) THEN <<>>
    ELSE <<start>> \o RangeSeq(start + step, stop, step)

\* the positions of an axis of size n a selector picks
Picked(sel, n) ==
    IF sel.t = "int" THEN <<IF sel.v < 0 THEN sel.v + n ELSE sel.v>>
    ELSE RangeSeq(SliceStart(sel, n), SliceStop(sel, n), SliceStep(sel))

\* mutant: negative indices are refused
IntOutOfBounds_NoNegative(sel, n) == sel.t = "int" /\ (sel.v < 0 \/ sel.v >= n)

\* IndexError: index out of bounds for its axis
IntOutOfBounds(sel, n) == sel.t = "int" /\ (sel.v < -n \/ sel.v >= n)

\* ValueError: slice step cannot be zero
ZeroStep(sel) == sel.t = "slice" /\ sel.step # None /\ sel.step[1] = 0

IndexRaises(a, sels) ==
    \/ Len(sels) > Len(a.shape)                  \* IndexError: too many indices
    \/ \E j \in 1..Len(sels) : IntOutOfBounds(sels[j], a.shape[j]) \/ ZeroStep(sels[j])

FullSlice == SliceSel(None, None, None)

SelAt(sels, j) == IF j <= Len(sels) THEN sels[j] ELSE FullSlice

\* source position of result index ridx, axis by axis
RECURSIVE SourceIndex(_, _, _, _)
SourceIndex(a, sels, j, ridx) ==
    IF j > Len(a.shape) THEN <<>>
    ELSE LET sel == SelAt(sels, j)
             picks == Picked(sel, a.shape[j])
         IN IF sel.t = "int"
            THEN <<picks[1]>> \o SourceIndex(a, sels, j + 1, ridx)
            ELSE <<picks[ridx[1] + 1]>> \o SourceIndex(a, sels, j + 1, Tail(ridx))

RECURSIVE IndexedShape(_, _, _)
IndexedShape(a, sels, j) ==
    IF j > Len(a.shape) THEN <<>>
    ELSE LET sel == SelAt(sels, j)
         IN (IF sel.t = "int" THEN <<>> ELSE <<Len(Picked(sel, a.shape[j]))>>)
            \o IndexedShape(a, sels, j + 1)

Indexed(a, sels) ==
    LET rshape == IndexedShape(a, sels, 1)
    IN NDArray(rshape,
               [ridx \in IndexTuples(rshape) |-> a.elems[SourceIndex(a, sels, 1, ridx)]])

(***************************************************************************)
(* The inputs of one run.  Each family varies one input widely and keeps   *)
(* the others to a few representative values.                              *)
(***************************************************************************)
RangeAlphabet == {"0", "1", "5", "-", ":", ",", "a"}

ShapeAlphabet == {"0", "2", "3", ",", "["}

\* the file holding n bytes; byte k has value k, so every byte is told apart
FileOf(n) == [k \in 1..n |-> k]

ExtraRangeTexts ==
    { Repeat(" ", MAX_RANGE_LEN - 1) \o <<"1">>,
      Repeat(" ", MAX_RANGE_LEN) \o <<"1">>,
      Repeat("a", MAX_RANGE_LEN),
      Repeat("a", MAX_RANGE_LEN + 1),
      <<"1", ",", "0", ":", "5">>,
      <<"-", "1", ",", "1", ":", "5">>,
      <<" ", "1", ":", " ", "-", "1">>,
      <<"1", ":", "5", ":", "-", "1">> }

ExtraShapeTexts ==
    { <<"4", ",", " ", "8">>,
      <<"[", "4", "]", "[", "8", "]">>,
      <<"2", ",", "3">>,
      <<"2", ",", "3", ",", "2">>,
      <<"2", "x", "2">> }

Args(entry, dtype, shape, plot_range, layout) ==
    [entry |-> entry, dtype |-> dtype, shape |-> shape,
     plot_range |-> plot_range, layout |-> layout]

\* click.Choice admits exactly the keys of DTYPE_SIZES (line 49)
DTYPES == DOMAIN DTYPE_SIZES

RangeInputs ==
    { [args |-> Args("main", "f", sf[1], r, l), file |-> FileOf(sf[2])] :
        r \in Texts(RangeAlphabet, MaxRangeLen) \cup ExtraRangeTexts,
        sf \in { << <<"4">>, 16 >>, << <<"2", ",", "3">>, 24 >> },
        l \in LAYOUTS }

ShapeInputs ==
    { [args |-> Args("main", "i", s, <<":">>, l), file |-> FileOf(n)] :
        s \in Texts(ShapeAlphabet, MaxShapeLen) \cup ExtraShapeTexts,
        n \in {0, 4, 8, 16, 24, 48},
        l \in LAYOUTS }

DecodeInputs ==
    { [args |-> Args("main", d, s, r, l), file |-> FileOf(n)] :
        d \in DTYPES,
        s \in { <<"1">>, <<"2">>, <<"4">>, <<"2", ",", "2">> },
        r \in { <<":">>, <<"0">> },
        l \in LAYOUTS,
        n \in 0..MaxFileLen }

\* read_binary_data called as a function: the dtype is whatever the caller
\* passes, and the shape vector passed is the one the text here denotes
DirectInputs ==
    { [args |-> Args("read_binary_data", d, s, <<>>, l), file |-> FileOf(n)] :
        d \in DTYPES \cup {"x"},
        s \in { <<"1">>, <<"2">>, <<"2", ",", "2">> },
        l \in LAYOUTS,
        n \in {0, 8, 9, 16, 32} }

Inputs == RangeInputs \cup ShapeInputs \cup DecodeInputs \cup DirectInputs

(***************************************************************************)
(* State.                                                                  *)
(***************************************************************************)
VARIABLES
    args,           \* the options of the run (fixed)
    file,           \* the bytes of the input file (fixed)
    pc,             \* position in main / read_binary_data
    shape,          \* main's shape after line 97
    slice_,         \* main's slice_
    handles,        \* the open handles on the input file
    opened,         \* how many handles were opened so far
    bin_data,       \* read_binary_data's bin_data while it holds bytes
    dtype_size,     \* read_binary_data's dtype_size (0: unbound)
    unpacked_data,  \* read_binary_data's unpacked_data
    bin_array,      \* the array read_binary_data returns
    out,            \* the messages printed, in order
    log,            \* the pipeline steps executed, in order
    exc,            \* the exception that ended the run ("none": none)
    plotted         \* the arguments of the calls of plot_data, in order

vars == <<args, file, pc, shape, slice_, handles, opened, bin_data, dtype_size,
          unpacked_data, bin_array, out, log, exc, plotted>>

Msg(level, text, n, w) == [level |-> level, text |-> text, n |-> n, w |-> w]

ErrRangeTooLong == Msg("Error", "--plot-range should be less than 15 chars long", 0, 0)
ErrRangeChars == Msg("Error", "--plot-range can only consist of the following chars", 0, 0)
ErrRangeParse == Msg("Error", "cannot parse --plot-range", 0, 0)
ErrDtype == Msg("Error", "dtype not recognized", 0, 0)
WarnTruncate(n, w) == Msg("Warning", "file size is not a multiple; truncating extra bytes", n, w)

NoArray == NDArray(<<>>, <<>>)

Init ==
    /\ \E i \in Inputs : args = i.args /\ file = i.file
    /\ pc = IF args.entry = "main" THEN "cli" ELSE "rbd_open"
    /\ shape = IF args.entry = "main" THEN <<>> ELSE ParseShape(args.shape)
    /\ slice_ = <<>>
    /\ handles = {}
    /\ opened = 0
    /\ bin_data = <<>>
    /\ dtype_size = 0
    /\ unpacked_data = <<>>
    /\ bin_array = NoArray
    /\ out = <<>>
    /\ log = <<>>
    /\ exc = "none"
    /\ plotted = <<>>

\* where control goes when an exception (or exit(1)) leaves the current frame:
\* under main, click's context closes the file it opened; a direct call just ends
Unwound == IF args.entry = "main" THEN "teardown" ELSE "done"

(***************************************************************************)
(* click, before main's body: click.File("r") opens the file named by      *)
(* --filename and keeps it open until the command's context is torn down.  *)
(***************************************************************************)
ClickOpenFile ==
    /\ pc = "cli"
    /\ handles' = handles \cup {"click"}
    /\ opened' = opened + 1
    /\ log' = Append(log, "click_open")
    /\ pc' = "parse_shape"
    /\ UNCHANGED <<args, file, shape, slice_, bin_data, dtype_size, unpacked_data,
                   bin_array, out, exc, plotted>>

\* mutant: the file is read before the range is looked at
MainParseShape_SkipsRange ==
    /\ pc = "parse_shape"
    /\ shape' = ParseShape(args.shape)
    /\ log' = Append(log, "parse_shape")
    /\ pc' = "rbd_open"
    /\ UNCHANGED <<args, file, slice_, handles, opened, bin_data, dtype_size,
                   unpacked_data, bin_array, out, exc, plotted>>

\* line 97
MainParseShape ==
    /\ pc = "parse_shape"
    /\ shape' = ParseShape(args.shape)
    /\ log' = Append(log, "parse_shape")
    /\ pc' = "check_range"
    /\ UNCHANGED <<args, file, slice_, handles, opened, bin_data, dtype_size,
                   unpacked_data, bin_array, out, exc, plotted>>

\* mutant: the length limit is off by one
TooLong_OffByOne(text) == Len(text) > MAX_RANGE_LEN + 1

TooLong(text) == Len(text) > MAX_RANGE_LEN

AllowedChars(text) == \A k \in 1..Len(text) : text[k] \in RANGE_CHARS

\* mutant: the error is printed and the run goes on
ExitWith_NoExit(msg) ==
    /\ out' = Append(out, msg)
    /\ exc' = exc
    /\ pc' = "rbd_open"

\* print an error and exit(1)
ExitWith(msg) ==
    /\ out' = Append(out, msg)
    /\ exc' = "SystemExit"
    /\ pc' = Unwound

\* lines 99-101
RangeTooLong ==
    /\ pc = "check_range"
    /\ TooLong(args.plot_range)
    /\ ExitWith(ErrRangeTooLong)
    /\ UNCHANGED <<args, file, shape, slice_, handles, opened, bin_data, dtype_size,
                   unpacked_data, bin_array, log, plotted>>

\* lines 102-106
RangeBadChars ==
    /\ pc = "check_range"
    /\ ~TooLong(args.plot_range)
    /\ ~AllowedChars(args.plot_range)
    /\ ExitWith(ErrRangeChars)
    /\ UNCHANGED <<args, file, shape, slice_, handles, opened, bin_data, dtype_size,
                   unpacked_data, bin_array, log, plotted>>

\* lines 107-112
MainEvalRange ==
    /\ pc = "check_range"
    /\ ~TooLong(args.plot_range)
    /\ AllowedChars(args.plot_range)
    /\ log' = Append(log, "eval")
    /\ IF EvalRaises(args.plot_range)
       THEN /\ ExitWith(ErrRangeParse)
            /\ UNCHANGED slice_
       ELSE /\ slice_' = EvalRange(args.plot_range)
            /\ pc' = "rbd_open"
            /\ UNCHANGED <<out, exc>>
    /\ UNCHANGED <<args, file, shape, handles, opened, bin_data, dtype_size,
                   unpacked_data, bin_array, plotted>>

(***************************************************************************)
(* read_binary_data                                                        *)
(***************************************************************************)
\* line 124: open(filename, "rb")
RbdOpen ==
    /\ pc = "rbd_open"
    /\ handles' = handles \cup {"rbd"}
    /\ opened' = opened + 1
    /\ log' = Append(log, "open")
    /\ pc' = "rbd_read"
    /\ UNCHANGED <<args, file, shape, slice_, bin_data, dtype_size, unpacked_data,
                   bin_array, out, exc, plotted>>

\* line 125: bin_data = file.read()
RbdRead ==
    /\ pc = "rbd_read"
    /\ bin_data' = file
    /\ log' = Append(log, "read")
    /\ pc' = "rbd_close"
    /\ UNCHANGED <<args, file, shape, slice_, handles, opened, dtype_size,
                   unpacked_data, bin_array, out, exc, plotted>>

\* leaving the with block of line 124 closes its handle
RbdClose ==
    /\ pc = "rbd_close"
    /\ handles' = handles \ {"rbd"}
    /\ log' = Append(log, "close")
    /\ pc' = "rbd_dtype"
    /\ UNCHANGED <<args, file, shape, slice_, opened, bin_data, dtype_size,
                   unpacked_data, bin_array, out, exc, plotted>>

\* lines 127-132: the KeyError handler prints and falls through
RbdDtypeSize ==
    /\ pc = "rbd_dtype"
    /\ IF args.dtype \in DOMAIN DTYPE_SIZES
       THEN dtype_size' = DTYPE_SIZES[args.dtype] /\ UNCHANGED out
       ELSE out' = Append(out, ErrDtype) /\ UNCHANGED dtype_size
    /\ pc' = "rbd_truncate"
    /\ UNCHANGED <<args, file, shape, slice_, handles, opened, bin_data,
                   unpacked_data, bin_array, log, exc, plotted>>

\* lines 134-139; reading the unbound dtype_size raises UnboundLocalError
RbdTruncate ==
    /\ pc = "rbd_truncate"
    /\ IF dtype_size = 0
       THEN /\ exc' = "UnboundLocalError"
            /\ pc' = Unwound
            /\ UNCHANGED <<bin_data, out>>
       ELSE /\ IF Len(bin_data) % dtype_size # 0
               THEN /\ out' = Append(out, WarnTruncate(Len(bin_data), dtype_size))
                    /\ bin_data' = Truncated(bin_data, dtype_size)
               ELSE UNCHANGED <<bin_data, out>>
            /\ pc' = "rbd_unpack"
            /\ UNCHANGED exc
    /\ UNCHANGED <<args, file, shape, slice_, handles, opened, dtype_size,
                   unpacked_data, bin_array, log, plotted>>

\* lines 141-145
RbdUnpack ==
    /\ pc = "rbd_unpack"
    /\ unpacked_data' = Unpack(args.dtype, bin_data)
    /\ log' = Append(log, "unpack")
    /\ pc' = "rbd_reshape"
    /\ UNCHANGED <<args, file, shape, slice_, handles, opened, bin_data, dtype_size,
                   bin_array, out, exc, plotted>>

\* lines 147-152: reshape raises ValueError on a size mismatch, which nothing
\* catches; otherwise the array is returned to the caller
RbdReshape ==
    /\ pc = "rbd_reshape"
    /\ log' = Append(log, "reshape")
    /\ LET target == IF args.layout = "f" THEN Reverse(shape) ELSE shape
       IN IF ReshapeRaises(unpacked_data, target)
          THEN /\ exc' = "ValueError"
               /\ pc' = Unwound
               /\ UNCHANGED bin_array
          ELSE /\ bin_array' = Shaped(unpacked_data, shape, args.layout)
               /\ pc' = IF args.entry = "main" THEN "index" ELSE "done"
               /\ UNCHANGED exc
    /\ UNCHANGED <<args, file, shape, slice_, handles, opened, bin_data, dtype_size,
                   unpacked_data, out, plotted>>

(***************************************************************************)
(* main, line 118, and plot_data                                           *)
(***************************************************************************)
\* the exception numpy raises: too many indices is found first, then the
\* selectors are applied in axis order and the first offending one raises
FirstBad(a, sels) ==
    CHOOSE j \in 1..Len(sels) :
        /\ IntOutOfBounds(sels[j], a.shape[j]) \/ ZeroStep(sels[j])
        /\ \A i \in 1..(j - 1) : ~(IntOutOfBounds(sels[i], a.shape[i]) \/ ZeroStep(sels[i]))

IndexException(a, sels) ==
    IF Len(sels) > Len(a.shape) THEN "IndexError"
    ELSE IF ZeroStep(sels[FirstBad(a, sels)]) THEN "ValueError" ELSE "IndexError"

\* line 118: bin_data[slice_] is evaluated, then plot_data is called with it
MainIndexAndPlot ==
    /\ pc = "index"
    /\ log' = Append(log, "index") \o
              (IF IndexRaises(bin_array, slice_) THEN <<>> ELSE <<"plot">>)
    /\ IF IndexRaises(bin_array, slice_)
       THEN /\ exc' = IndexException(bin_array, slice_)
            /\ UNCHANGED plotted
       ELSE /\ plotted' = Append(plotted, Indexed(bin_array, slice_))
            /\ UNCHANGED exc
    /\ pc' = "teardown"
    /\ UNCHANGED <<args, file, shape, slice_, handles, opened, bin_data, dtype_size,
                   unpacked_data, bin_array, out>>

\* click closes the file it opened when the command's context exits, whether
\* main returned, raised or called exit
ClickTeardown ==
    /\ pc = "teardown"
    /\ handles' = handles \ {"click"}
    /\ log' = Append(log, "click_close")
    /\ pc' = "done"
    /\ UNCHANGED <<args, file, shape, slice_, opened, bin_data, dtype_size,
                   unpacked_data, bin_array, out, exc, plotted>>

Next ==
    \/ ClickOpenFile
    \/ MainParseShape
    \/ RangeTooLong
    \/ RangeBadChars
    \/ MainEvalRange
    \/ RbdOpen
    \/ RbdRead
    \/ RbdClose
    \/ RbdDtypeSize
    \/ RbdTruncate
    \/ RbdUnpack
    \/ RbdReshape
    \/ MainIndexAndPlot
    \/ ClickTeardown

Spec == Init /\ [][Next]_vars

(***************************************************************************)
(* Properties.                                                             *)
(***************************************************************************)
InLog(e) == \E k \in 1..Len(log) : log[k] = e

Printed(m) == \E k \in 1..Len(out) : out[k] = m

HasError == \E k \in 1..Len(out) : out[k].level = "Error"

HasWarning == \E k \in 1..Len(out) : out[k].level = "Warning"

Supported == args.dtype \in {"i", "I", "q", "Q", "f", "d"}

\* C1: for every supported dtype and every file of n bytes the decode step
\* does not fail: it yields floor(n / w) scalars, scalar k made of bytes
\* (k-1)w+1 .. kw of the file, the n mod w (< w) trailing bytes are dropped,
\* and the truncation warning is printed iff n mod w # 0.
C1_DecodeTruncates ==
    LET n == Len(file)
        w == DTYPE_SIZES[args.dtype]
    IN /\ (Supported /\ InLog("read") /\ ~InLog("reshape")) => exc = "none"
       /\ (Supported /\ InLog("unpack")) =>
            /\ Len(unpacked_data) * w <= n
            /\ n < (Len(unpacked_data) + 1) * w
            /\ \A k \in 1..Len(unpacked_data) : \A b \in 1..w :
                   unpacked_data[k].bytes[b] = file[(k - 1) * w + b]
            /\ \A k \in 1..Len(unpacked_data) : Len(unpacked_data[k].bytes) = w
            /\ Len(file) - Len(bin_data) = n % w
            /\ n % w < w
            /\ bin_data = SubSeq(file, 1, Len(bin_data))
            /\ HasWarning <=> (n % w # 0)
            /\ HasWarning => out = <<WarnTruncate(n, w)>>

\* a misaligned file was truncated and still decoded to at least one scalar
C1_Witness ==
    /\ Supported
    /\ InLog("unpack")
    /\ Len(file) % DTYPE_SIZES[args.dtype] # 0
    /\ Len(unpacked_data) >= 1
    /\ HasWarning

\* the characters the claim lists
C3_Charset == {"0", "1", "2", "3", "4", "5", "6", "7", "8", "9", "-", "[", "]", ",", ":", " "}

C3_CharsOk == \A k \in 1..Len(args.plot_range) : args.plot_range[k] \in C3_Charset

RECURSIVE C4_RowMajorPos(_, _, _)
C4_RowMajorPos(idx, dims, acc) ==
    IF idx = <<>> THEN acc
    ELSE C4_RowMajorPos(Tail(idx), Tail(dims), acc * dims[1] + idx[1])

\* the flat position the claim gives for ColumnMajor: i0 + d0*(i1 + d1*(i2 + ...))
RECURSIVE C4_ColMajorPos(_, _)
C4_ColMajorPos(idx, dims) ==
    IF idx = <<>> THEN 0
    ELSE idx[1] + dims[1] * C4_ColMajorPos(Tail(idx), Tail(dims))

Returned == bin_array # NoArray

\* C4: the reshaped array has the axis sizes of the shape as given, and its
\* element at (i0,...,ik-1) is the flat scalar at the RowMajor position under
\* layout "c" and at the ColumnMajor position under layout "f".
C4_LayoutPositions ==
    Returned =>
        /\ bin_array.shape = shape
        /\ DOMAIN bin_array.elems = IndexTuples(shape)
        /\ \A idx \in IndexTuples(shape) :
              bin_array.elems[idx] =
                  unpacked_data[1 + (IF args.layout = "c"
                                     THEN C4_RowMajorPos(idx, shape, 0)
                                     ELSE C4_ColMajorPos(idx, shape))]

\* a column-major array of three axes of different sizes was built
C4_Witness ==
    /\ Returned
    /\ args.layout = "f"
    /\ Len(shape) = 3
    /\ shape[1] # shape[2]
    /\ Len(unpacked_data) = 12

\* C2 (as claimed): with plot_range = "" and a shape whose product matches
\* the decoded scalars, the run ends with the whole reshaped array handed to
\* plot_data and no error printed.
C2_EmptyRangeSelectsAll ==
    ( /\ args.entry = "main"
      /\ args.plot_range = <<>>
      /\ pc = "done"
      /\ Prod(shape) = Len(file) \div DTYPE_SIZES[args.dtype] ) =>
        /\ ~HasError
        /\ exc = "none"
        /\ Len(plotted) = 1
        /\ plotted[1].shape = shape

OnAxis(j) == j <= Len(slice_) /\ j <= Len(bin_array.shape)

C5_Wrap(v, n) == IF v < 0 THEN v + n ELSE v

\* the positions of an axis of size n that a step-less slice start:stop selects
C5_Selected(sel, n) ==
    { p \in 0..(n - 1) :
        /\ sel.start # None => C5_Wrap(sel.start[1], n) <= p
        /\ sel.stop # None => p < C5_Wrap(sel.stop[1], n) }

C5_ZeroStepBefore(j) ==
    \E i \in 1..(j - 1) : slice_[i].t = "slice" /\ slice_[i].step = <<0>>

AfterReshape ==
    InLog("reshape") /\ pc \in {"index", "teardown", "done"}

\* C6 (as claimed): a shape whose product differs from the number of scalars
\* is found by a check made before any reshape is attempted, an error message
\* is printed and plot_data is never reached; an equal product reshapes.
C6_ShapeCheckedBeforeReshape ==
    /\ (InLog("unpack") /\ Prod(shape) # Len(unpacked_data) /\ pc \in {"index", "teardown", "done"})
          => (HasError /\ ~InLog("reshape") /\ exc # "none" /\ plotted = <<>>)
    /\ (AfterReshape /\ Prod(shape) = Len(unpacked_data)) => bin_array # NoArray

\* C7 (as claimed): the parsed shape is the digit runs in order, every entry
\* positive, and a text without a digit ends the run with an error before any
\* file is read.
C7_ShapeParsed ==
    (args.entry = "main" /\ InLog("parse_shape")) =>
        /\ shape = ParseShape(args.shape)
        /\ \A k \in 1..Len(shape) : shape[k] > 0
        /\ shape = <<>> => (HasError /\ exc # "none" /\ ~InLog("open") /\ ~InLog("read"))

\* C9 (as claimed): one handle on the input file is opened in the whole run,
\* it is closed before decoding, and no handle is open in any later stage.
C9_OneHandleClosedBeforeDecode ==
    /\ opened <= 1
    /\ (pc \in {"rbd_dtype", "rbd_truncate", "rbd_unpack", "rbd_reshape", "index"})
          => handles = {}
    /\ pc = "done" => handles = {}

RangeRejected ==
    Printed(ErrRangeTooLong) \/ Printed(ErrRangeChars) \/ Printed(ErrRangeParse)

Before(a, b) ==
    \E i, j \in 1..Len(log) : i < j /\ log[i] = a /\ log[j] = b

\* C8: once an "Error ::" message is printed no pipeline step runs (nothing
\* is evaluated, opened, read, decoded, reshaped, indexed or plotted) and the
\* run ends with an exception, i.e. a non-zero status; only a run whose
\* messages are all warnings reaches plot_data.
C8_ErrorsAreTerminal ==
    /\ [](HasError /\ pc = "done" => exc # "none")
    /\ [](HasError => plotted = <<>>)
    /\ [](plotted # <<>> => \A k \in 1..Len(out) : out[k].level = "Warning")
    /\ [][HasError =>
            /\ log' = log \/ log' = Append(log, "click_close")
            /\ pc' \in {"teardown", "done"}
            /\ out' = out
            /\ <<slice_, bin_data, unpacked_data, bin_array, plotted, opened>>' =
                   <<slice_, bin_data, unpacked_data, bin_array, plotted, opened>>]_vars

\* read_binary_data printed the dtype error and the call ended by raising
C8_Witness ==
    /\ Printed(ErrDtype)
    /\ pc = "done"
    /\ exc = "UnboundLocalError"
    /\ ~InLog("unpack")

\* C10: a rejected range text (too long, bad character, unparsable) means
\* read_binary_data never opens or reads the file, no truncation warning is
\* printed and plot_data is not called; under main the file is opened only
\* after the range was evaluated; plot_data is called at most once, and only
\* after evaluation, decoding and reshaping succeeded, in that order.
C10_RangeBeforeRead ==
    /\ RangeRejected =>
          /\ ~InLog("open") /\ ~InLog("read") /\ ~InLog("unpack") /\ ~InLog("reshape")
          /\ bin_data = <<>>
          /\ ~HasWarning
          /\ plotted = <<>>
    /\ (args.entry = "main" /\ (Len(args.plot_range) > 15 \/ ~C3_CharsOk))
          => (~InLog("open") /\ plotted = <<>>)
    /\ (args.entry = "main" /\ InLog("open")) => (Before("eval", "open") /\ slice_ # <<>>)
    /\ Len(plotted) <= 1
    /\ InLog("plot") <=> plotted # <<>>
    /\ plotted # <<>> =>
          /\ Before("eval", "read") /\ Before("read", "unpack")
          /\ Before("unpack", "reshape") /\ Before("reshape", "plot")
          /\ bin_array # NoArray
          /\ exc = "none"

\* an unparsable range text ended the run with the file untouched
C10_Witness ==
    /\ Printed(ErrRangeParse)
    /\ pc = "done"
    /\ InLog("eval")
    /\ ~InLog("open")

=============================================================================
